---- MODULE Spec2Model ----
(***************************************************************************)
(* A model of etf_overlap/helper.py: EquityHelpers and ETFHelpers.         *)
(*                                                                         *)
(* Data frames are sequences of records (one record per row).  A nullable  *)
(* value (Python None, a pandas NaN cell) is the empty tuple None, and a   *)
(* present value v is the one-element tuple Some(v).                       *)
(*                                                                         *)
(* Units.  The holdings provider gives a percentage as a string such as    *)
(* "0.5%"; the model writes it as the integer number of tenths of a        *)
(* percent (5).  A cleaned percent is a fraction; the model writes it in   *)
(* units of 1/10000 (0.005 is 50), so that rounding to two decimals is     *)
(* rounding to a multiple of 100.  Binary floating-point representation    *)
(* error is not modelled: sums are exact.                                  *)
(*                                                                         *)
(* The providers are outside the repository.  The holdings provider's data *)
(* for the two ETFs is fixed during a behaviour, and every fetch may fail; *)
(* the equity provider answers each call with any of its possible tables.  *)
(* Assertions are enabled, as in a default run of the interpreter.         *)
(***************************************************************************)
EXTENDS Integers, Sequences, FiniteSets, TLC

VARIABLES
    provider,     \* what the ETF holdings provider holds for etf_1 and etf_2
    merged_etfs,  \* self.merged_etfs: None or Some(merged table)
    greater,      \* self.greater: None or Some(etf)
    lesser,       \* self.lesser: None or Some(etf)
    everMerged,   \* history: set_merged_etfs has succeeded at least once
    ret           \* the call the caller is being answered: its arguments, what
                  \* it read, its outcome; Idle between two calls

vars == <<provider, merged_etfs, greater, lesser, everMerged, ret>>

None == <<>>
Some(v) == <<v>>

-----------------------------------------------------------------------------
(* Bounds of the model *)

MaxRows == 2                \* rows of a longer holdings table
MaxSingle == 1              \* rows of a short holdings table
MaxN == 2                   \* the n of get_top_overlapping_holdings is in 0..MaxN
Symbols == {1, 2}
Names == {1, 2}
RawPercents == {5, 10}      \* "0.5%" and "1.0%"
ShareCounts == {1, 2}
EquitySymbols == {0, 1}     \* the keys the equity provider may hold
ColumnCounts == {4, 5}      \* columns of a fetched table once its index is reset

(* Constants of the program *)

NumColumns == 4             \* ['symbol', 'name', 'percent', 'shares']
EmptySymbol == 0            \* the key '' of the equity provider

\* The two ETFs of the instance, which are different ETFs, and an etf that is
\* neither of them.
etf_1 == "X"
etf_2 == "Y"
OtherEtf == "Z"
EtfArgs == {etf_1, etf_2, OtherEtf}

-----------------------------------------------------------------------------
(* Helpers over sequences *)

RECURSIVE Concat(_)
Concat(ss) == IF ss = <<>> THEN <<>> ELSE Head(ss) \o Concat(Tail(ss))

RECURSIVE SumSeq(_)
SumSeq(s) == IF s = <<>> THEN 0 ELSE Head(s) + SumSeq(Tail(s))

SeqsUpTo(S, n) == UNION {[1..k -> S] : k \in 0..n}

Injective(s) == \A i, j \in DOMAIN s : s[i] = s[j] => i = j

-----------------------------------------------------------------------------
(* The external providers *)

\* One raw holdings row: the index (symbol) and the three data columns.
RawRows == [symbol : Symbols, name : Names, percent : RawPercents, shares : ShareCounts]

\* The rows of the short tables: every symbol, name and share count.
NamedRows == {r \in RawRows : r.percent = 5}

\* The rows of the longer tables: every symbol and percent.
CoreRows == {r \in RawRows : r.name = 1 /\ r.shares = 1}

\* The provider's data for the two ETFs: tables of up to MaxSingle rows over
\* NamedRows, or tables of up to MaxRows rows (repeated symbols included) over
\* CoreRows.
Providers ==
    [{etf_1, etf_2} -> SeqsUpTo(NamedRows, MaxSingle)]
        \cup [{etf_1, etf_2} -> SeqsUpTo(CoreRows, MaxRows)]

\* fd.select_equities(): a dict, so its keys are distinct; '' may be a key.
\* Each entry carries more fields than the three that are kept.
EquityEntry(s) ==
    [symbol |-> s, sector |-> <<"sector", s>>, industry |-> <<"industry", s>>,
     country |-> <<"country", s>>, currency |-> <<"currency", s>>]

Upstreams ==
    {[i \in DOMAIN ks |-> EquityEntry(ks[i])] :
        ks \in {q \in SeqsUpTo(EquitySymbols, Cardinality(EquitySymbols)) : Injective(q)}}

\* The ways openbb.etf.holdings(etf) can fail: the not-found ValueError, or
\* any other error.
FetchErrors == {"ValueError", "OtherError"}

-----------------------------------------------------------------------------
(* EquityHelpers *)

get_equity_data(orig_eq_json) ==
    LET kept == SelectSeq(orig_eq_json, LAMBDA e : e.symbol # EmptySymbol)
    IN  [i \in DOMAIN kept |->
            [symbol |-> kept[i].symbol, sector |-> kept[i].sector,
             industry |-> kept[i].industry, country |-> kept[i].country]]

\* how='inner' in place of how='left': a left row with no match is dropped.
InnerJoinRow(h, equity_df) ==
    LET m == SelectSeq(equity_df, LAMBDA e : e.symbol = h.symbol)
    IN  [i \in DOMAIN m |->
            [symbol |-> h.symbol, name |-> h.name, percent |-> h.percent,
             shares |-> h.shares, sector |-> Some(m[i].sector),
             industry |-> Some(m[i].industry), country |-> Some(m[i].country)]]

\* holdings_df.merge(equity_df, how='left', on='symbol'): left order is kept,
\* a left row with no match is kept with null right columns, a left row with
\* k matches appears k times.
LeftJoinRow(h, equity_df) ==
    LET m == SelectSeq(equity_df, LAMBDA e : e.symbol = h.symbol)
    IN  IF m = <<>>
        THEN <<[symbol |-> h.symbol, name |-> h.name, percent |-> h.percent,
                shares |-> h.shares, sector |-> None, industry |-> None,
                country |-> None]>>
        ELSE [i \in DOMAIN m |->
                [symbol |-> h.symbol, name |-> h.name, percent |-> h.percent,
                 shares |-> h.shares, sector |-> Some(m[i].sector),
                 industry |-> Some(m[i].industry), country |-> Some(m[i].country)]]

merge_with_holdings(holdings_df, orig_eq_json) ==
    LET equity_df == get_equity_data(orig_eq_json)
    IN  Concat([i \in DOMAIN holdings_df |-> LeftJoinRow(holdings_df[i], equity_df)])

-----------------------------------------------------------------------------
(* ETFHelpers: pure parts *)

\* df.columns = [4 names] raises ValueError unless the frame has 4 columns.
CleanRaises(df) == df.ncols # NumColumns

\* "0.5%" -> 0.005: tenths of a percent to units of 1/10000.
ParsePercent(p) == p * 10

clean_holdings(df) ==
    [i \in DOMAIN df.rows |->
        [symbol |-> df.rows[i].symbol, name |-> df.rows[i].name,
         percent |-> ParsePercent(df.rows[i].percent), shares |-> df.rows[i].shares]]

KeyOf(r) == <<r.symbol, r.name>>

KeysOf(df) == {KeyOf(df[i]) : i \in DOMAIN df}

KeyLess(a, b) == a[1] < b[1] \/ (a[1] = b[1] /\ a[2] < b[2])

RECURSIVE SortedKeys(_)
SortedKeys(S) ==
    IF S = {} THEN <<>>
    ELSE LET m == CHOOSE k \in S : \A o \in S \ {k} : KeyLess(k, o)
         IN  <<m>> \o SortedKeys(S \ {m})

\* The rows of the outer join for one key.
JoinKey(l, r, k) ==
    LET L == SelectSeq(l, LAMBDA x : KeyOf(x) = k)
        R == SelectSeq(r, LAMBDA x : KeyOf(x) = k)
    IN  IF R = <<>>
        THEN [i \in DOMAIN L |->
                [symbol |-> k[1], name |-> k[2],
                 percent_1 |-> Some(L[i].percent), shares_1 |-> Some(L[i].shares),
                 percent_2 |-> None, shares_2 |-> None, merge |-> "left_only"]]
        ELSE IF L = <<>>
        THEN [j \in DOMAIN R |->
                [symbol |-> k[1], name |-> k[2],
                 percent_1 |-> None, shares_1 |-> None,
                 percent_2 |-> Some(R[j].percent), shares_2 |-> Some(R[j].shares),
                 merge |-> "right_only"]]
        ELSE [x \in 1..(Len(L) * Len(R)) |->
                LET i == ((x - 1) \div Len(R)) + 1
                    j == ((x - 1) % Len(R)) + 1
                IN  [symbol |-> k[1], name |-> k[2],
                     percent_1 |-> Some(L[i].percent), shares_1 |-> Some(L[i].shares),
                     percent_2 |-> Some(R[j].percent), shares_2 |-> Some(R[j].shares),
                     merge |-> "both"]]

\* how='inner' in place of how='outer': only the keys of both frames are kept.
OuterMergeInner(df_1, df_2) ==
    LET ks == SortedKeys(KeysOf(df_1) \cap KeysOf(df_2))
    IN  Concat([i \in DOMAIN ks |-> JoinKey(df_1, df_2, ks[i])])

\* df_1.merge(df_2, how='outer', on=['symbol','name'], suffixes, indicator=True)
OuterMerge(df_1, df_2) ==
    LET ks == SortedKeys(KeysOf(df_1) \cup KeysOf(df_2))
    IN  Concat([i \in DOMAIN ks |-> JoinKey(df_1, df_2, ks[i])])

\* merged[f'percent_{etf}'] and merged[f'shares_{etf}'] of one row
PercentOf(row, etf) == IF etf = etf_1 THEN row.percent_1 ELSE row.percent_2
SharesOf(row, etf) == IF etf = etf_1 THEN row.shares_1 ELSE row.shares_2

\* Series.sum(): null cells are skipped, the empty sum is 0.
ColumnSum(col) == SumSeq(Concat(col))

TotalShares(merged, etf) == ColumnSum([i \in DOMAIN merged |-> SharesOf(merged[i], etf)])

\* merged_etfs[merged_etfs['_merge'] == 'both']
Overlap(merged) == SelectSeq(merged, LAMBDA r : r.merge = "both")

\* round(x, 2): to the nearest multiple of 0.01, a half going to the even one.
Round2(x) ==
    LET q == x \div 100
        r == x % 100
    IN  IF r < 50 THEN q * 100
        ELSE IF r > 50 THEN (q + 1) * 100
        ELSE IF q % 2 = 0 THEN q * 100 ELSE (q + 1) * 100

\* The filter on '_merge' left out: the column is summed over every row.
PercentOverlapAllRows(merged, etf) ==
    Round2(ColumnSum([i \in DOMAIN merged |-> PercentOf(merged[i], etf)]))

PercentOverlap(merged, etf) ==
    Round2(ColumnSum([i \in DOMAIN Overlap(merged) |-> PercentOf(Overlap(merged)[i], etf)]))

PercentsOf(rows, etf) == {PercentOf(rows[i], etf)[1] : i \in DOMAIN rows}

Largest(S) == CHOOSE m \in S : \A o \in S : o <= m

\* s without its first element equal to v
RECURSIVE RemoveOne(_, _)
RemoveOne(s, v) ==
    IF s = <<>> THEN <<>>
    ELSE IF Head(s) = v THEN Tail(s)
    ELSE <<Head(s)>> \o RemoveOne(Tail(s), v)

\* The sort left out: the rows stay in the order of the merged table.
SortOutcomesUnsorted(overlap, etf) == {overlap}

\* overlap.sort_values(f'percent_{etf}', ascending=False): the default kind is
\* 'quicksort', which pandas documents as not stable, so every descending
\* arrangement of the rows is a possible result.
RECURSIVE SortOutcomes(_, _)
SortOutcomes(overlap, etf) ==
    IF overlap = <<>> THEN {<<>>}
    ELSE LET top == Largest(PercentsOf(overlap, etf))
             firsts == {overlap[i] : i \in {j \in DOMAIN overlap :
                                               PercentOf(overlap[j], etf)[1] = top}}
         IN  UNION {{<<v>> \o t : t \in SortOutcomes(RemoveOne(overlap, v), etf)} :
                        v \in firsts}

\* overlap[['symbol','name',percent_<etf>,shares_<etf>]] renamed
Project(sorted, etf) ==
    [i \in DOMAIN sorted |->
        [symbol |-> sorted[i].symbol, name |-> sorted[i].name,
         percent |-> PercentOf(sorted[i], etf)[1], shares |-> SharesOf(sorted[i], etf)[1]]]

\* head(n) left out: the whole table is returned.
HeadRowsAll(df, n) == df

\* DataFrame.head(n), n >= 0
HeadRows(df, n) == SubSeq(df, 1, IF n < Len(df) THEN n ELSE Len(df))

\* The comparison of the greater label turned round.
GreaterOfFlipped(etf_1_total, etf_2_total) == IF etf_1_total < etf_2_total THEN etf_1 ELSE etf_2

\* The two conditional expressions of set_etf_size.
GreaterOf(etf_1_total, etf_2_total) == IF etf_1_total > etf_2_total THEN etf_1 ELSE etf_2
LesserOf(etf_1_total, etf_2_total) == IF etf_1_total < etf_2_total THEN etf_1 ELSE etf_2

\* The assertion left out.
ValidEtfAny(etf) == TRUE

\* assert etf in (self.etf_1, self.etf_2)
ValidEtf(etf) == etf \in {etf_1, etf_2}

\* except ValueError
Caught(exc) == exc = "ValueError"

NotFoundMessage == "ETF data not found for at least one symbol. Maybe you misspelled a symbol?"

\* merged_etfs starting as an empty table rather than None.
InitMergedEmpty == Some(<<>>)

\* self.merged_etfs = None in __init__
InitMerged == None

-----------------------------------------------------------------------------
(* The record of a call *)

Ret(op, etf, n, outcome) ==
    [op |-> op, etf |-> etf, n |-> n, outcome |-> outcome, msg |-> "",
     fetch |-> <<>>, cols |-> <<>>, value |-> None, table |-> <<>>, full |-> <<>>,
     upstream |-> <<>>, called |-> FALSE]

\* What openbb.etf.holdings(etf) can answer: the table, with its number of
\* columns once the index is reset, or an error.
Fetches(etf) ==
    {[kind |-> "table", ncols |-> c, rows |-> provider[etf]] : c \in ColumnCounts}
    \cup {[kind |-> k, ncols |-> 0, rows |-> <<>>] : k \in FetchErrors}

NotCalled == [kind |-> "notcalled", ncols |-> 0, rows |-> <<>>]

\* What the try body of set_merged_etfs raises: "" when it completes.
TryRaises(f1, f2) ==
    IF f1.kind # "table" THEN f1.kind
    ELSE IF f2.kind # "table" THEN f2.kind
    ELSE IF CleanRaises(f1) \/ CleanRaises(f2) THEN "ValueError"
    ELSE ""

-----------------------------------------------------------------------------
(* The operations.  The instance has one caller, which calls one method at a *)
(* time: a call is made when the last one has returned.                      *)

Idle == Ret("idle", "", 0, "ok")

Init ==
    /\ provider \in Providers
    /\ merged_etfs = InitMerged
    /\ greater = None
    /\ lesser = None
    /\ everMerged = FALSE
    /\ ret = Idle

set_merged_etfs ==
    /\ ret = Idle
    /\ \E f1 \in Fetches(etf_1) :
        \E f2 \in IF f1.kind = "table" THEN Fetches(etf_2) ELSE {NotCalled} :
            LET exc == TryRaises(f1, f2)
                call == [Ret("set_merged_etfs", "", 0, "ok") EXCEPT
                            !.fetch = <<f1.kind, f2.kind>>, !.cols = <<f1.ncols, f2.ncols>>]
            IN  IF exc = ""
                THEN /\ merged_etfs' = Some(OuterMerge(clean_holdings(f1), clean_holdings(f2)))
                     /\ everMerged' = TRUE
                     /\ ret' = call
                ELSE /\ UNCHANGED <<merged_etfs, everMerged>>
                     /\ ret' = IF Caught(exc)
                               THEN [call EXCEPT !.outcome = "ValueError", !.msg = NotFoundMessage]
                               ELSE [call EXCEPT !.outcome = exc]
    /\ UNCHANGED <<provider, greater, lesser>>

set_etf_size ==
    /\ ret = Idle
    /\ IF merged_etfs = None
       THEN /\ ret' = Ret("set_etf_size", "", 0, "TypeError")
            /\ UNCHANGED <<greater, lesser>>
       ELSE LET etf_1_total == TotalShares(merged_etfs[1], etf_1)
                etf_2_total == TotalShares(merged_etfs[1], etf_2)
            IN  /\ greater' = Some(GreaterOf(etf_1_total, etf_2_total))
                /\ lesser' = Some(LesserOf(etf_1_total, etf_2_total))
                /\ ret' = [Ret("set_etf_size", "", 0, "ok") EXCEPT
                              !.value = <<etf_1_total, etf_2_total>>]
    /\ UNCHANGED <<provider, merged_etfs, everMerged>>

get_percent_overlap ==
    /\ ret = Idle
    /\ \E etf \in EtfArgs :
        ret' = IF ~ValidEtf(etf)
               THEN Ret("get_percent_overlap", etf, 0, "AssertionError")
               ELSE IF merged_etfs = None
               THEN Ret("get_percent_overlap", etf, 0, "TypeError")
               ELSE [Ret("get_percent_overlap", etf, 0, "ok") EXCEPT
                        !.value = Some(PercentOverlap(merged_etfs[1], etf))]
    /\ UNCHANGED <<provider, merged_etfs, greater, lesser, everMerged>>

\* The possible results of self.get_holdings_overlap(etf) in the current state.
HoldingsOverlap(etf) ==
    IF ~ValidEtf(etf)
    THEN {[outcome |-> "AssertionError", table |-> <<>>, upstream |-> <<>>, called |-> FALSE]}
    ELSE IF merged_etfs = None
    THEN {[outcome |-> "TypeError", table |-> <<>>, upstream |-> <<>>, called |-> FALSE]}
    ELSE {[outcome |-> "ok", table |-> merge_with_holdings(Project(s, etf), up),
           upstream |-> up, called |-> TRUE] :
              s \in SortOutcomes(Overlap(merged_etfs[1]), etf), up \in Upstreams}

get_holdings_overlap ==
    /\ ret = Idle
    /\ \E etf \in EtfArgs :
        \E r \in HoldingsOverlap(etf) :
            ret' = [Ret("get_holdings_overlap", etf, 0, r.outcome) EXCEPT
                       !.table = r.table, !.full = r.table,
                       !.upstream = r.upstream, !.called = r.called]
    /\ UNCHANGED <<provider, merged_etfs, greater, lesser, everMerged>>

get_top_overlapping_holdings ==
    /\ ret = Idle
    /\ \E etf \in EtfArgs, n \in 0..MaxN :
        IF ~ValidEtf(etf)
        THEN ret' = Ret("get_top_overlapping_holdings", etf, n, "AssertionError")
        ELSE \E r \in HoldingsOverlap(etf) :
                ret' = [Ret("get_top_overlapping_holdings", etf, n, r.outcome) EXCEPT
                           !.table = IF r.outcome = "ok" THEN HeadRows(r.table, n) ELSE <<>>,
                           !.full = r.table,
                           !.upstream = r.upstream, !.called = r.called]
    /\ UNCHANGED <<provider, merged_etfs, greater, lesser, everMerged>>

\* The call returns its value, or raises its exception, to the caller.
Return ==
    /\ ret # Idle
    /\ ret' = Idle
    /\ UNCHANGED <<provider, merged_etfs, greater, lesser, everMerged>>

Next ==
    \/ set_merged_etfs
    \/ set_etf_size
    \/ get_percent_overlap
    \/ get_holdings_overlap
    \/ get_top_overlapping_holdings
    \/ Return

Spec == Init /\ [][Next]_vars

-----------------------------------------------------------------------------
(* Vocabulary of the properties, written without the operators above *)

Etfs == {etf_1, etf_2}

\* The (symbol, name) pairs of the provider's table for one ETF
PairsOf(etf) == {<<provider[etf][i].symbol, provider[etf][i].name>> : i \in DOMAIN provider[etf]}

RECURSIVE SumOver(_, _)
SumOver(S, f) ==
    IF S = {} THEN 0
    ELSE LET x == CHOOSE y \in S : TRUE IN f[x] + SumOver(S \ {x}, f)

BothIndices(m) == {i \in DOMAIN m : m[i].merge = "both"}

\* The total of percent_<etf> over the rows of m tagged both
BothPercent(m, etf) ==
    SumOver(BothIndices(m),
            [i \in BothIndices(m) |-> IF etf = etf_1 THEN m[i].percent_1[1] ELSE m[i].percent_2[1]])

\* The total of shares_<etf> over all the rows of m, a null cell counting 0
AllShares(m, etf) ==
    SumOver(DOMAIN m,
            [i \in DOMAIN m |->
                LET c == IF etf = etf_1 THEN m[i].shares_1 ELSE m[i].shares_2
                IN  IF c = None THEN 0 ELSE c[1]])

\* The four holdings columns of an enriched row, and of a merged row
FourOf(row) == <<row.symbol, row.name, row.percent, row.shares>>

FourOfMerged(row, etf) ==
    IF etf = etf_1 THEN <<row.symbol, row.name, row.percent_1[1], row.shares_1[1]>>
    ELSE <<row.symbol, row.name, row.percent_2[1], row.shares_2[1]>>

Occurrences(s, v) == Cardinality({i \in DOMAIN s : s[i] = v})

Descending(t) == \A i, j \in DOMAIN t : i < j => t[i].percent >= t[j].percent

IsPrefix(t, u) == Len(t) <= Len(u) /\ \A i \in DOMAIN t : t[i] = u[i]

\* The rows tagged both, in the order a stable descending sort by percent puts
\* them: repeatedly the first of the rows with the largest percent.
RECURSIVE StableDescending(_)
StableDescending(fours) ==
    IF fours = <<>> THEN <<>>
    ELSE LET top == CHOOSE p \in {fours[i][3] : i \in DOMAIN fours} :
                        \A i \in DOMAIN fours : fours[i][3] <= p
             k == CHOOSE i \in DOMAIN fours :
                        fours[i][3] = top /\ \A j \in 1..(i - 1) : fours[j][3] # top
         IN  <<fours[k]>> \o StableDescending(SubSeq(fours, 1, k - 1) \o SubSeq(fours, k + 1, Len(fours)))

BothFours(m, etf) ==
    LET b == SelectSeq(m, LAMBDA r : r.merge = "both")
    IN  [i \in DOMAIN b |-> FourOfMerged(b[i], etf)]

QueryOps == {"get_percent_overlap", "get_holdings_overlap", "get_top_overlapping_holdings"}

Returned(op) == ret.op = op /\ ret.outcome = "ok"

-----------------------------------------------------------------------------
(* C1: after set_merged_etfs succeeds, the (symbol, name) pairs of the merged  *)
(* table are exactly the pairs of the two holdings tables, and a row is tagged *)
(* both exactly when its pair is in both tables, left_only exactly when it is  *)
(* only in etf_1's, right_only exactly when it is only in etf_2's.             *)
C1_MergeMembership ==
    merged_etfs # None =>
        LET m == merged_etfs[1]
            A == PairsOf(etf_1)
            B == PairsOf(etf_2)
        IN  /\ \A i \in DOMAIN m : <<m[i].symbol, m[i].name>> \in A \cup B
            /\ \A k \in A \cup B : \E i \in DOMAIN m : <<m[i].symbol, m[i].name>> = k
            /\ \A i \in DOMAIN m :
                LET k == <<m[i].symbol, m[i].name>>
                IN  /\ m[i].merge \in {"both", "left_only", "right_only"}
                    /\ m[i].merge = "both" <=> (k \in A /\ k \in B)
                    /\ m[i].merge = "left_only" <=> (k \in A /\ k \notin B)
                    /\ m[i].merge = "right_only" <=> (k \notin A /\ k \in B)

\* A merged table in which one symbol is held under different names on the two
\* sides, so that neither row is tagged both.
C1_Witness ==
    /\ Returned("set_merged_etfs")
    /\ merged_etfs # None
    /\ \E i, j \in DOMAIN merged_etfs[1] :
        /\ merged_etfs[1][i].symbol = merged_etfs[1][j].symbol
        /\ merged_etfs[1][i].merge = "left_only"
        /\ merged_etfs[1][j].merge = "right_only"

(* C2: get_percent_overlap(etf), for etf one of the two ETFs and a merged table *)
(* loaded, returns the total of percent_<etf> over exactly the rows tagged     *)
(* both, rounded to two decimals: a multiple of 0.01 at most 0.005 away from   *)
(* that total, and 0 when no row is tagged both.                               *)
C2_PercentOverlap ==
    /\ (ret.op = "get_percent_overlap" /\ ret.etf \in Etfs /\ merged_etfs # None)
            => ret.outcome = "ok"
    /\ Returned("get_percent_overlap") =>
        LET total == BothPercent(merged_etfs[1], ret.etf)
            v == ret.value[1]
        IN  /\ v % 100 = 0
            /\ 2 * (v - total) <= 100
            /\ 2 * (total - v) <= 100
            /\ BothIndices(merged_etfs[1]) = {} => v = 0

\* A call where the rounding changes the total and a row that is not tagged
\* both carries a percent of the ETF asked for.
C2_Witness ==
    /\ Returned("get_percent_overlap")
    /\ BothPercent(merged_etfs[1], ret.etf) % 100 # 0
    /\ \E i \in DOMAIN merged_etfs[1] :
        /\ merged_etfs[1][i].merge # "both"
        /\ (IF ret.etf = etf_1 THEN merged_etfs[1][i].percent_1
                               ELSE merged_etfs[1][i].percent_2) # None

(* C3: when the total shares of etf_1 and etf_2 over the merged table are      *)
(* equal, set_etf_size leaves lesser = etf_1 and greater = etf_2.              *)
C3_TieBreak ==
    (Returned("set_etf_size")
        /\ AllShares(merged_etfs[1], etf_1) = AllShares(merged_etfs[1], etf_2))
    => (lesser = Some(etf_1) /\ greater = Some(etf_2))

(* C4: when the two totals of shares over the whole merged table differ,       *)
(* set_etf_size leaves greater = the ETF with the larger total and lesser =    *)
(* the ETF with the smaller one; they are then distinct and together are the   *)
(* two ETFs.                                                                   *)
C4_GreaterLesser ==
    Returned("set_etf_size") =>
        LET t1 == AllShares(merged_etfs[1], etf_1)
            t2 == AllShares(merged_etfs[1], etf_2)
        IN  /\ t1 > t2 => (greater = Some(etf_1) /\ lesser = Some(etf_2))
            /\ t1 < t2 => (greater = Some(etf_2) /\ lesser = Some(etf_1))
            /\ t1 # t2 => (greater # lesser /\ {greater[1], lesser[1]} = Etfs)

\* etf_1 has the larger total over a merged table holding a row tagged both and
\* a row whose etf_2 shares are null.
C4_Witness ==
    /\ Returned("set_etf_size")
    /\ AllShares(merged_etfs[1], etf_1) > AllShares(merged_etfs[1], etf_2)
    /\ \E i, j \in DOMAIN merged_etfs[1] :
        merged_etfs[1][i].merge = "both" /\ merged_etfs[1][j].shares_2 = None

(* C5: get_top_overlapping_holdings(etf, n), n >= 0, returns the first n rows  *)
(* of the get_holdings_overlap(etf) table it computed (ret.full: one row for   *)
(* each row tagged both, in descending order of percent): at most n rows, in   *)
(* descending order of percent, a prefix of that table, and the whole table    *)
(* when it has fewer than n rows.                                              *)
C5_TopIsPrefix ==
    /\ (ret.op = "get_top_overlapping_holdings" /\ ret.etf \in Etfs /\ merged_etfs # None)
            => ret.outcome = "ok"
    /\ Returned("get_top_overlapping_holdings") =>
        /\ Len(ret.full) = Cardinality(BothIndices(merged_etfs[1]))
        /\ Descending(ret.full)
        /\ Len(ret.table) <= ret.n
        /\ Len(ret.table) = (IF ret.n <= Len(ret.full) THEN ret.n ELSE Len(ret.full))
        /\ IsPrefix(ret.table, ret.full)
        /\ Descending(ret.table)
        /\ Len(ret.full) < ret.n => ret.table = ret.full

\* A call that cuts the table: n is at least 1 and the table has more rows.
C5_Witness ==
    /\ Returned("get_top_overlapping_holdings")
    /\ ret.n >= 1
    /\ Len(ret.full) > ret.n
    /\ Len(ret.table) = ret.n

C7_LeftJoin ==
    Returned("get_holdings_overlap") =>
        LET b == BothFours(merged_etfs[1], ret.etf)
            t == [i \in DOMAIN ret.table |-> FourOf(ret.table[i])]
            known == {ret.upstream[i].symbol : i \in DOMAIN ret.upstream} \ {EmptySymbol}
        IN  /\ Len(t) = Len(b)
            /\ \A i \in DOMAIN b : Occurrences(t, b[i]) = Occurrences(b, b[i])
            /\ Descending(ret.table)
            /\ \A i \in DOMAIN ret.table :
                LET row == ret.table[i]
                IN  IF row.symbol \notin known
                    THEN row.sector = None /\ row.industry = None /\ row.country = None
                    ELSE \E e \in DOMAIN ret.upstream :
                            /\ ret.upstream[e].symbol = row.symbol
                            /\ row.sector = Some(ret.upstream[e].sector)
                            /\ row.industry = Some(ret.upstream[e].industry)
                            /\ row.country = Some(ret.upstream[e].country)

\* A table with a row whose symbol the reference set lacks and a row whose
\* symbol it has, the reference set also holding the empty symbol.
C7_Witness ==
    /\ Returned("get_holdings_overlap")
    /\ \E e \in DOMAIN ret.upstream : ret.upstream[e].symbol = EmptySymbol
    /\ \E i, j \in DOMAIN ret.table :
        ret.table[i].sector = None /\ ret.table[j].sector # None

(* C8: set_merged_etfs fails with the 'ETF data not found' error exactly when  *)
(* a holdings fetch failed with the not-found error; no other failure of the   *)
(* merge step, a table of the wrong number of columns included, is reported    *)
(* with that message.                                                          *)
C8_OnlyNotFoundIsReworded ==
    ret.op = "set_merged_etfs" =>
        ((ret.outcome = "ValueError" /\ ret.msg = NotFoundMessage)
            <=> (\E i \in DOMAIN ret.fetch : ret.fetch[i] = "ValueError"))

(* C9: the three queries, called with an etf that is neither etf_1 nor etf_2,  *)
(* fail with the assertion error before anything is computed: no result, no    *)
(* call of the equity provider, and merged_etfs, greater and lesser unchanged. *)
C9_InvalidEtf ==
    [][(ret'.op \in QueryOps /\ ret'.etf \notin Etfs) =>
            /\ ret'.outcome = "AssertionError"
            /\ ret'.value = None
            /\ ret'.table = <<>>
            /\ ret'.full = <<>>
            /\ ret'.called = FALSE
            /\ merged_etfs' = merged_etfs
            /\ greater' = greater
            /\ lesser' = lesser]_vars

\* A query with another etf refused while a merged table is loaded.
C9_Witness ==
    /\ ret.op = "get_holdings_overlap"
    /\ ret.etf \notin Etfs
    /\ ret.outcome = "AssertionError"
    /\ merged_etfs # None
    /\ Overlap(merged_etfs[1]) # <<>>

(* C10: as long as no set_merged_etfs has succeeded, merged_etfs, greater and  *)
(* lesser are null, and set_etf_size and the three queries (with one of the    *)
(* two ETFs) fault without a result; a set_merged_etfs that failed changes     *)
(* nothing of this.                                                            *)
C10_NothingBeforeMerge ==
    ~everMerged =>
        /\ merged_etfs = None
        /\ greater = None
        /\ lesser = None
        /\ (ret.op = "set_etf_size" \/ (ret.op \in QueryOps /\ ret.etf \in Etfs)) =>
                /\ ret.outcome = "TypeError"
                /\ ret.value = None
                /\ ret.table = <<>>
                /\ ret.called = FALSE

\* set_etf_size has faulted with no merge having succeeded so far.
C10_Witness ==
    /\ ~everMerged
    /\ ret.op = "set_etf_size"
    /\ ret.outcome = "TypeError"

====
